---- MODULE Spec2Model ----
(***************************************************************************)
(* Model of rio_api::gmodel (src/api/src/gmodel.rs): generalized RDF terms *)
(* and quads, their widening (From) and narrowing (TryFrom) conversions to *)
(* the strict RDF model, and their default formatters.                     *)
(*                                                                         *)
(* Every value carries a field ty naming its Rust type.  Text (&str) is a  *)
(* sequence of one-character strings; an error message is a sequence of    *)
(* words.  The state is the value a caller holds (val), the value it       *)
(* started from (orig), the conversions applied so far (ops) and the       *)
(* operand of the last one (arg).                                          *)
(***************************************************************************)
EXTENDS Integers, Sequences, FiniteSets, TLC

VARIABLES orig, val, ops, arg

vars == <<orig, val, ops, arg>>

(* ------------------------------ bounds --------------------------------- *)

\* Number of distinct borrowed texts used as payloads.
NumNames == 2

\* The i-th text: i copies of the character x.
Name(i) == [j \in 1..i |-> "x"]

Names == {Name(i) : i \in 1..NumNames}

(* ------------------------- leaf and union types ------------------------ *)

NamedNode(n) == [ty |-> "NamedNode", iri |-> n]

BlankNode(n) == [ty |-> "BlankNode", id |-> n]

Literal(n) == [ty |-> "Literal", value |-> n]

Variable(n) == [ty |-> "Variable", name |-> n]

NamedOrBlankNode(inner) == [ty |-> "NamedOrBlankNode", tag |-> inner.ty, inner |-> inner]

Term(inner) == [ty |-> "Term", tag |-> inner.ty, inner |-> inner]

GeneralizedTerm(inner) == [ty |-> "GeneralizedTerm", tag |-> inner.ty, inner |-> inner]

None == [ty |-> "None"]

Some(x) == [ty |-> "Some", value |-> x]

Ok(x) == [ty |-> "Ok", value |-> x]

Err(e) == [ty |-> "Err", error |-> e]

String(chars) == [ty |-> "String", chars |-> chars]

Quad(s, p, o, g) ==
    [ty |-> "Quad", subject |-> s, predicate |-> p, object |-> o, graph_name |-> g]

Triple(s, p, o) ==
    [ty |-> "Triple", subject |-> s, predicate |-> p, object |-> o]

GeneralizedQuad(s, p, o, g) ==
    [ty |-> "GeneralizedQuad", subject |-> s, predicate |-> p, object |-> o,
     graph_name |-> g]

\* impl From<&str> for StrictRdfError
StrictRdfError(message) == [ty |-> "StrictRdfError", message |-> message]

(* ------------------------------ value sets ----------------------------- *)

NamedNodes == {NamedNode(n) : n \in Names}

BlankNodes == {BlankNode(n) : n \in Names}

Literals == {Literal(n) : n \in Names}

Variables == {Variable(n) : n \in Names}

NamedOrBlankNodes == {NamedOrBlankNode(x) : x \in NamedNodes \cup BlankNodes}

Terms == {Term(x) : x \in NamedNodes \cup BlankNodes \cup Literals}

GeneralizedTerms ==
    {GeneralizedTerm(x) : x \in NamedNodes \cup BlankNodes \cup Literals \cup Variables}

Option(S) == {None} \cup {Some(x) : x \in S}

Quads ==
    {Quad(s, p, o, g) : s \in NamedOrBlankNodes, p \in NamedNodes, o \in Terms,
                        g \in Option(NamedOrBlankNodes)}

GeneralizedQuads ==
    {GeneralizedQuad(s, p, o, g) : s \in GeneralizedTerms, p \in GeneralizedTerms,
                                   o \in GeneralizedTerms, g \in Option(GeneralizedTerms)}

(* ---------------------------- error messages --------------------------- *)

MsgBlankPredicate == <<"Blankd", "node", "can", "not", "be", "used", "as", "predicate">>

MsgLiteralPredicate == <<"Literal", "can", "not", "be", "used", "as", "predicate">>

MsgLiteralSubject == <<"Literal", "can", "not", "be", "used", "a", "subject">>

MsgVariable == <<"Variable", "can", "not", "be", "converted", "to", "Term">>

MsgNamedGraph ==
    <<"Quad", "in", "named", "graph", "can", "not", "be", "converted", "to", "Triple">>

(* ------------------------ widening: From<...> -------------------------- *)

\* impl From<NamedNode> for GeneralizedTerm
FromNamedNode(other) == GeneralizedTerm(other)

\* impl From<BlankNode> for GeneralizedTerm
FromBlankNode(other) == GeneralizedTerm(other)

\* impl From<Literal> for GeneralizedTerm
FromLiteral(other) == GeneralizedTerm(other)

\* impl From<Variable> for GeneralizedTerm
FromVariable(other) == GeneralizedTerm(other)

\* Faulty variant: the BlankNode arm tags its payload as a NamedNode.
FromNamedOrBlankNode_BlankAsNamed(other) ==
    CASE other.tag = "NamedNode" -> GeneralizedTerm(other.inner)
      [] other.tag = "BlankNode" -> GeneralizedTerm(NamedNode(other.inner.id))

\* impl From<NamedOrBlankNode> for GeneralizedTerm
FromNamedOrBlankNode(other) ==
    CASE other.tag = "NamedNode" -> GeneralizedTerm(other.inner)
      [] other.tag = "BlankNode" -> GeneralizedTerm(other.inner)

\* impl From<Term> for GeneralizedTerm
FromTerm(other) ==
    CASE other.tag = "NamedNode" -> GeneralizedTerm(other.inner)
      [] other.tag = "BlankNode" -> GeneralizedTerm(other.inner)
      [] other.tag = "Literal" -> GeneralizedTerm(other.inner)

(* ----------------------- narrowing: TryFrom<...> ----------------------- *)

\* Faulty variant: the Variable arm repeats the Literal arm's message.
TryFromForNamedNode_VariableAsLiteral(other) ==
    CASE other.tag = "NamedNode" -> Ok(other.inner)
      [] other.tag = "BlankNode" -> Err(StrictRdfError(MsgBlankPredicate))
      [] other.tag = "Literal" -> Err(StrictRdfError(MsgLiteralPredicate))
      [] other.tag = "Variable" -> Err(StrictRdfError(MsgLiteralPredicate))

\* impl TryFrom<GeneralizedTerm> for NamedNode
TryFromForNamedNode(other) ==
    CASE other.tag = "NamedNode" -> Ok(other.inner)
      [] other.tag = "BlankNode" -> Err(StrictRdfError(MsgBlankPredicate))
      [] other.tag = "Literal" -> Err(StrictRdfError(MsgLiteralPredicate))
      [] other.tag = "Variable" -> Err(StrictRdfError(MsgVariable))

\* Faulty variant: the Literal arm carries the predicate message.
TryFromForNamedOrBlankNode_PredicateMessage(other) ==
    CASE other.tag = "NamedNode" -> Ok(NamedOrBlankNode(other.inner))
      [] other.tag = "BlankNode" -> Ok(NamedOrBlankNode(other.inner))
      [] other.tag = "Literal" -> Err(StrictRdfError(MsgLiteralPredicate))
      [] other.tag = "Variable" -> Err(StrictRdfError(MsgVariable))

\* impl TryFrom<GeneralizedTerm> for NamedOrBlankNode
TryFromForNamedOrBlankNode(other) ==
    CASE other.tag = "NamedNode" -> Ok(NamedOrBlankNode(other.inner))
      [] other.tag = "BlankNode" -> Ok(NamedOrBlankNode(other.inner))
      [] other.tag = "Literal" -> Err(StrictRdfError(MsgLiteralSubject))
      [] other.tag = "Variable" -> Err(StrictRdfError(MsgVariable))

\* Faulty variant: the Literal arm rejects, as in the subject-position target.
TryFromForTerm_RejectsLiteral(other) ==
    CASE other.tag = "NamedNode" -> Ok(Term(other.inner))
      [] other.tag = "BlankNode" -> Ok(Term(other.inner))
      [] other.tag = "Literal" -> Err(StrictRdfError(MsgLiteralSubject))
      [] other.tag = "Variable" -> Err(StrictRdfError(MsgVariable))

\* impl TryFrom<GeneralizedTerm> for Term
TryFromForTerm(other) ==
    CASE other.tag = "NamedNode" -> Ok(Term(other.inner))
      [] other.tag = "BlankNode" -> Ok(Term(other.inner))
      [] other.tag = "Literal" -> Ok(Term(other.inner))
      [] other.tag = "Variable" -> Err(StrictRdfError(MsgVariable))

\* The strict type of each field of Quad and Triple (crate::model), which is
\* what selects the TryFrom / From implementation behind try_into() / into().
FieldType ==
    [subject |-> "NamedOrBlankNode", predicate |-> "NamedNode", object |-> "Term",
     graph_name |-> "NamedOrBlankNode"]

\* term.try_into() with the target type inferred from the field it initialises
TryInto(target, term) ==
    CASE target = "NamedNode" -> TryFromForNamedNode(term)
      [] target = "NamedOrBlankNode" -> TryFromForNamedOrBlankNode(term)
      [] target = "Term" -> TryFromForTerm(term)

\* strict.into() with the source type given by the field it is read from
Into(source, strict) ==
    CASE source = "NamedNode" -> FromNamedNode(strict)
      [] source = "NamedOrBlankNode" -> FromNamedOrBlankNode(strict)
      [] source = "Term" -> FromTerm(strict)

\* Option::map(f).transpose() for f = GeneralizedTerm::try_into
MapTranspose(target, opt) ==
    IF opt.ty = "None" THEN Ok(None)
    ELSE LET r == TryInto(target, opt.value)
         IN  IF r.ty = "Err" THEN r ELSE Ok(Some(r.value))

\* Faulty variant: the graph name is dropped.
FromQuad_DropGraph(other) ==
    GeneralizedQuad(Into(FieldType.subject, other.subject),
                    Into(FieldType.predicate, other.predicate),
                    Into(FieldType.object, other.object),
                    None)

\* impl From<Quad> for GeneralizedQuad
FromQuad(other) ==
    GeneralizedQuad(Into(FieldType.subject, other.subject),
                    Into(FieldType.predicate, other.predicate),
                    Into(FieldType.object, other.object),
                    IF other.graph_name.ty = "None" THEN None
                    ELSE Some(Into(FieldType.graph_name, other.graph_name.value)))

\* Faulty variant: the object is narrowed before the subject.
TryFromForQuad_ObjectFirst(other) ==
    LET s == TryInto(FieldType.subject, other.subject)
        p == TryInto(FieldType.predicate, other.predicate)
        o == TryInto(FieldType.object, other.object)
        g == MapTranspose(FieldType.graph_name, other.graph_name)
    IN  IF o.ty = "Err" THEN o
        ELSE IF s.ty = "Err" THEN s
        ELSE IF p.ty = "Err" THEN p
        ELSE IF g.ty = "Err" THEN g
        ELSE Ok(Quad(s.value, p.value, o.value, g.value))

\* impl TryFrom<GeneralizedQuad> for Quad: each ? returns the field's error
TryFromForQuad(other) ==
    LET s == TryInto(FieldType.subject, other.subject)
        p == TryInto(FieldType.predicate, other.predicate)
        o == TryInto(FieldType.object, other.object)
        g == MapTranspose(FieldType.graph_name, other.graph_name)
    IN  IF s.ty = "Err" THEN s
        ELSE IF p.ty = "Err" THEN p
        ELSE IF o.ty = "Err" THEN o
        ELSE IF g.ty = "Err" THEN g
        ELSE Ok(Quad(s.value, p.value, o.value, g.value))

\* Faulty variant: the fields are narrowed before the graph name is looked at.
TryFromForTriple_FieldsFirst(other) ==
    LET s == TryInto(FieldType.subject, other.subject)
        p == TryInto(FieldType.predicate, other.predicate)
        o == TryInto(FieldType.object, other.object)
    IN  IF s.ty = "Err" THEN s
        ELSE IF p.ty = "Err" THEN p
        ELSE IF o.ty = "Err" THEN o
        ELSE IF other.graph_name.ty = "Some" THEN Err(StrictRdfError(MsgNamedGraph))
        ELSE Ok(Triple(s.value, p.value, o.value))

\* Faulty variant: the two match arms are exchanged.
TryFromForTriple_ArmsSwapped(other) ==
    IF other.graph_name.ty = "None" THEN Err(StrictRdfError(MsgNamedGraph))
    ELSE LET s == TryInto(FieldType.subject, other.subject)
             p == TryInto(FieldType.predicate, other.predicate)
             o == TryInto(FieldType.object, other.object)
         IN  IF s.ty = "Err" THEN s
             ELSE IF p.ty = "Err" THEN p
             ELSE IF o.ty = "Err" THEN o
             ELSE Ok(Triple(s.value, p.value, o.value))

\* impl TryFrom<GeneralizedQuad> for Triple
TryFromForTriple(other) ==
    IF other.graph_name.ty = "Some" THEN Err(StrictRdfError(MsgNamedGraph))
    ELSE LET s == TryInto(FieldType.subject, other.subject)
             p == TryInto(FieldType.predicate, other.predicate)
             o == TryInto(FieldType.object, other.object)
         IN  IF s.ty = "Err" THEN s
             ELSE IF p.ty = "Err" THEN p
             ELSE IF o.ty = "Err" THEN o
             ELSE Ok(Triple(s.value, p.value, o.value))

(* ------------------------------ formatting ----------------------------- *)

\* impl Display for Variable: write!(f, "?{}", self.name)
DisplayVariable(v) == <<"?">> \o v.name

\* Display of the strict leaf terms (crate::model), N-Triples syntax
DisplayStrict(x) ==
    CASE x.ty = "NamedNode" -> <<"<">> \o x.iri \o <<">">>
      [] x.ty = "BlankNode" -> <<"_", ":">> \o x.id
      [] x.ty = "Literal" -> <<"\"">> \o x.value \o <<"\"">>

\* impl Display for GeneralizedTerm
DisplayGeneralizedTerm(t) ==
    CASE t.tag = "NamedNode" -> DisplayStrict(t.inner)
      [] t.tag = "BlankNode" -> DisplayStrict(t.inner)
      [] t.tag = "Literal" -> DisplayStrict(t.inner)
      [] t.tag = "Variable" -> DisplayVariable(t.inner)

\* Faulty variant: a space is written before the closing brace.
DisplayGeneralizedQuad_SpaceBeforeBrace(q) ==
    LET w1 == IF q.graph_name.ty = "Some"
              THEN <<"G", "R", "A", "P", "H", " ">>
                   \o DisplayGeneralizedTerm(q.graph_name.value) \o <<" ", "{", " ">>
              ELSE <<>>
        w2 == DisplayGeneralizedTerm(q.subject) \o <<" ">>
              \o DisplayGeneralizedTerm(q.predicate) \o <<" ">>
              \o DisplayGeneralizedTerm(q.object) \o <<" ", ".">>
        w3 == IF q.graph_name.ty # "None" THEN <<" ", "}">> ELSE <<>>
    IN  w1 \o w2 \o w3

\* impl Display for GeneralizedQuad: three writes, the first and the last
\* conditional on the graph name
DisplayGeneralizedQuad(q) ==
    LET w1 == IF q.graph_name.ty = "Some"
              THEN <<"G", "R", "A", "P", "H", " ">>
                   \o DisplayGeneralizedTerm(q.graph_name.value) \o <<" ", "{", " ">>
              ELSE <<>>
        w2 == DisplayGeneralizedTerm(q.subject) \o <<" ">>
              \o DisplayGeneralizedTerm(q.predicate) \o <<" ">>
              \o DisplayGeneralizedTerm(q.object) \o <<" ", ".">>
        w3 == IF q.graph_name.ty # "None" THEN <<"}">> ELSE <<>>
    IN  w1 \o w2 \o w3

(* ------------------------------- actions ------------------------------- *)

Apply(name, result) ==
    /\ val' = result
    /\ arg' = val
    /\ ops' = Append(ops, name)
    /\ UNCHANGED orig

WidenNamedNode == val.ty = "NamedNode" /\ Apply("from_NamedNode", FromNamedNode(val))

WidenBlankNode == val.ty = "BlankNode" /\ Apply("from_BlankNode", FromBlankNode(val))

WidenLiteral == val.ty = "Literal" /\ Apply("from_Literal", FromLiteral(val))

WidenVariable == val.ty = "Variable" /\ Apply("from_Variable", FromVariable(val))

WidenNamedOrBlankNode ==
    val.ty = "NamedOrBlankNode" /\ Apply("from_NamedOrBlankNode", FromNamedOrBlankNode(val))

WidenTerm == val.ty = "Term" /\ Apply("from_Term", FromTerm(val))

WidenQuad == val.ty = "Quad" /\ Apply("from_Quad", FromQuad(val))

NarrowToNamedNode ==
    val.ty = "GeneralizedTerm" /\ Apply("try_from_NamedNode", TryFromForNamedNode(val))

NarrowToNamedOrBlankNode ==
    /\ val.ty = "GeneralizedTerm"
    /\ Apply("try_from_NamedOrBlankNode", TryFromForNamedOrBlankNode(val))

NarrowToTerm ==
    val.ty = "GeneralizedTerm" /\ Apply("try_from_Term", TryFromForTerm(val))

NarrowToQuad ==
    val.ty = "GeneralizedQuad" /\ Apply("try_from_Quad", TryFromForQuad(val))

NarrowToTriple ==
    val.ty = "GeneralizedQuad" /\ Apply("try_from_Triple", TryFromForTriple(val))

FormatVariable ==
    val.ty = "Variable" /\ Apply("fmt_Variable", String(DisplayVariable(val)))

FormatGeneralizedTerm ==
    /\ val.ty = "GeneralizedTerm"
    /\ Apply("fmt_GeneralizedTerm", String(DisplayGeneralizedTerm(val)))

FormatGeneralizedQuad ==
    /\ val.ty = "GeneralizedQuad"
    /\ Apply("fmt_GeneralizedQuad", String(DisplayGeneralizedQuad(val)))

Inputs ==
    NamedNodes \cup BlankNodes \cup Literals \cup Variables \cup NamedOrBlankNodes
    \cup Terms \cup GeneralizedTerms \cup Quads \cup GeneralizedQuads

Init ==
    /\ orig \in Inputs
    /\ val = orig
    /\ arg = orig
    /\ ops = <<>>

Next ==
    \/ WidenNamedNode
    \/ WidenBlankNode
    \/ WidenLiteral
    \/ WidenVariable
    \/ WidenNamedOrBlankNode
    \/ WidenTerm
    \/ WidenQuad
    \/ NarrowToNamedNode
    \/ NarrowToNamedOrBlankNode
    \/ NarrowToTerm
    \/ NarrowToQuad
    \/ NarrowToTriple
    \/ FormatVariable
    \/ FormatGeneralizedTerm
    \/ FormatGeneralizedQuad

Spec == Init /\ [][Next]_vars

(* ------------------------------ properties ----------------------------- *)

LastOp == IF ops = <<>> THEN "none" ELSE ops[Len(ops)]

IsErr(r, message) == r = Err(StrictRdfError(message))

FieldOrder == <<"subject", "predicate", "object", "graph_name">>

\* The outcome the strict RDF rule of field FieldOrder[i] gives for quad q.
RuleOutcome(q, i) ==
    CASE i = 1 -> TryFromForNamedOrBlankNode(q.subject)
      [] i = 2 -> TryFromForNamedNode(q.predicate)
      [] i = 3 -> TryFromForTerm(q.object)
      [] i = 4 -> IF q.graph_name.ty = "None" THEN Ok(None)
                  ELSE TryFromForNamedOrBlankNode(q.graph_name.value)

\* The term in field FieldOrder[i] of quad q (graph_name present when i = 4).
FieldTerm(q, i) == IF i = 4 THEN q.graph_name.value ELSE q[FieldOrder[i]]

Violating(q) == {i \in 1..4 : RuleOutcome(q, i).ty = "Err"}

FirstViolating(q) == CHOOSE i \in Violating(q) : \A j \in Violating(q) : i <= j

\* C1: narrowing a GeneralizedQuad to a Quad returns the error of the first
\* field, in the order subject, predicate, object, graph_name, that violates
\* its rule, and is Ok only if no field violates its rule.
C1_FirstFieldError ==
    LastOp = "try_from_Quad" =>
        /\ val.ty \in {"Ok", "Err"}
        /\ (val.ty = "Ok") <=> (Violating(arg) = {})
        /\ Violating(arg) # {} => val = RuleOutcome(arg, FirstViolating(arg))
        /\ (1 \in Violating(arg) /\ 3 \in Violating(arg)) =>
               val = TryFromForNamedOrBlankNode(arg.subject)

C1_Witness ==
    /\ LastOp = "try_from_Quad"
    /\ arg.subject.tag = "Literal"
    /\ arg.object.tag = "Variable"
    /\ IsErr(val, MsgLiteralSubject)

\* C2: narrowing a GeneralizedQuad whose graph_name is present to a Triple
\* fails with the named-graph cause whatever the subject, predicate and
\* object are.
C2_NamedGraphFirst ==
    (LastOp = "try_from_Triple" /\ arg.graph_name.ty = "Some") =>
        IsErr(val, MsgNamedGraph)

C2_Witness ==
    /\ LastOp = "try_from_Triple"
    /\ arg.graph_name.ty = "Some"
    /\ arg.subject.tag = "Variable"
    /\ arg.predicate.tag = "Literal"
    /\ IsErr(val, MsgNamedGraph)

\* C3: the IRI target accepts exactly NamedNode, the subject-position target
\* exactly NamedNode and BlankNode, the any-term target exactly NamedNode,
\* BlankNode and Literal; each narrowing returns Ok or Err for every variant.
C3_PositionalTable ==
    /\ LastOp = "try_from_NamedNode" =>
           /\ val.ty \in {"Ok", "Err"}
           /\ (val.ty = "Ok") <=> (arg.tag = "NamedNode")
    /\ LastOp = "try_from_NamedOrBlankNode" =>
           /\ val.ty \in {"Ok", "Err"}
           /\ (val.ty = "Ok") <=> (arg.tag \in {"NamedNode", "BlankNode"})
    /\ LastOp = "try_from_Term" =>
           /\ val.ty \in {"Ok", "Err"}
           /\ (val.ty = "Ok") <=> (arg.tag \in {"NamedNode", "BlankNode", "Literal"})

C3_Witness ==
    /\ LastOp = "try_from_NamedOrBlankNode"
    /\ arg.tag = "Literal"
    /\ val.ty = "Err"

\* C4: widening a strict term and narrowing the result back to the type it
\* came from returns Ok of the original value.
C4_RoundTrip ==
    /\ ops = <<"from_NamedNode", "try_from_NamedNode">> => val = Ok(orig)
    /\ ops = <<"from_NamedOrBlankNode", "try_from_NamedOrBlankNode">> => val = Ok(orig)
    /\ ops = <<"from_Term", "try_from_Term">> => val = Ok(orig)

C4_Witness ==
    /\ ops = <<"from_NamedOrBlankNode", "try_from_NamedOrBlankNode">>
    /\ orig.tag = "BlankNode"
    /\ val = Ok(orig)

\* C5: a Variable is rejected by each of the three term narrowings with the
\* one variable cause, no other term kind and no graph check produces that
\* cause, and a GeneralizedQuad with a Variable in any field does not narrow
\* to a Quad.
C5_VariableRejected ==
    /\ (LastOp \in {"try_from_NamedNode", "try_from_NamedOrBlankNode", "try_from_Term"}) =>
           (arg.tag = "Variable") <=> IsErr(val, MsgVariable)
    /\ LastOp = "try_from_Quad" =>
           /\ (\/ arg.subject.tag = "Variable"
               \/ arg.predicate.tag = "Variable"
               \/ arg.object.tag = "Variable"
               \/ (arg.graph_name.ty = "Some" /\ arg.graph_name.value.tag = "Variable"))
              => val.ty = "Err"
           /\ IsErr(val, MsgVariable) =>
                  FieldTerm(arg, FirstViolating(arg)).tag = "Variable"
    /\ (LastOp = "try_from_Triple" /\ arg.graph_name.ty = "Some") =>
           ~ IsErr(val, MsgVariable)

C5_Witness ==
    /\ LastOp = "try_from_Term"
    /\ arg.tag = "Variable"
    /\ IsErr(val, MsgVariable)

Concrete(q) ==
    /\ q.subject.tag # "Variable"
    /\ q.predicate.tag # "Variable"
    /\ q.object.tag # "Variable"

\* The subject, predicate and object of a narrowed Triple or Quad.
SPO(x) == <<x.subject, x.predicate, x.object>>

\* C6 as stated: with graph_name absent and no Variable in subject, predicate
\* or object, narrowing to Triple succeeds and agrees with narrowing to Quad.
C6_Original ==
    (LastOp = "try_from_Triple" /\ arg.graph_name.ty = "None" /\ Concrete(arg)) =>
        /\ val.ty = "Ok"
        /\ TryFromForQuad(arg).ty = "Ok"
        /\ SPO(val.value) = SPO(TryFromForQuad(arg).value)

\* C6 amended: with graph_name absent, narrowing to Triple succeeds exactly
\* when subject is a NamedNode or BlankNode, predicate a NamedNode and object
\* not a Variable; it then has the subject, predicate and object of the Quad
\* narrowing, whose graph is absent, and otherwise fails with the Quad
\* narrowing's error.
C6_TripleQuadSymmetry ==
    (LastOp = "try_from_Triple" /\ arg.graph_name.ty = "None") =>
        LET quad == TryFromForQuad(arg)
        IN  /\ (val.ty = "Ok") <=>
                   /\ arg.subject.tag \in {"NamedNode", "BlankNode"}
                   /\ arg.predicate.tag = "NamedNode"
                   /\ arg.object.tag # "Variable"
            /\ val.ty = "Ok" =>
                   /\ quad.ty = "Ok"
                   /\ val.value.ty = "Triple"
                   /\ SPO(val.value) = SPO(quad.value)
                   /\ quad.value.graph_name = None
            /\ val.ty = "Err" => val = quad

C6_Witness ==
    /\ LastOp = "try_from_Triple"
    /\ arg.graph_name.ty = "None"
    /\ arg.subject.tag = "BlankNode"
    /\ arg.object.tag = "Literal"
    /\ val.ty = "Ok"

Mentions(message, word) == \E i \in 1..Len(message) : message[i] = word

\* The term kind an error message names.
KindNamed(message) ==
    CASE message[1] = "Blankd" /\ message[2] = "node" -> "BlankNode"
      [] message[1] = "Literal" -> "Literal"
      [] message[1] = "Variable" -> "Variable"
      [] OTHER -> "none"

PositionWord ==
    [subject |-> "subject", predicate |-> "predicate", object |-> "object",
     graph_name |-> "graph"]

\* The statement positions an error message names.
PositionsNamed(message) ==
    {f \in DOMAIN PositionWord : Mentions(message, PositionWord[f])}

\* The position word of the rule a strict target type stands for.
RuleWord == [NamedNode |-> "predicate", NamedOrBlankNode |-> "subject"]

\* C7 as stated: the error of a rejected field names that field's position
\* and the kind of the term in it.
C7_Original ==
    (LastOp = "try_from_Quad" /\ val.ty = "Err") =>
        LET i == FirstViolating(arg)
        IN  /\ KindNamed(val.error.message) = FieldTerm(arg, i).tag
            /\ PositionsNamed(val.error.message) = {FieldOrder[i]}

\* C7 amended: the error of a rejected field names the kind of the term in
\* it; for a BlankNode or Literal it names the rule of the field's target
\* type (predicate for NamedNode, subject for NamedOrBlankNode, so subject
\* for a graph_name), and for a Variable it is the one variable cause, which
\* names no position.
C7_MessageNamesRuleAndKind ==
    (LastOp = "try_from_Quad" /\ val.ty = "Err") =>
        LET i == FirstViolating(arg)
            kind == FieldTerm(arg, i).tag
            message == val.error.message
        IN  /\ KindNamed(message) = kind
            /\ kind = "Variable" =>
                   /\ message = MsgVariable
                   /\ PositionsNamed(message) = {}
            /\ kind # "Variable" =>
                   /\ FieldType[FieldOrder[i]] \in DOMAIN RuleWord
                   /\ Mentions(message, RuleWord[FieldType[FieldOrder[i]]])
                   /\ Cardinality(PositionsNamed(message)) = 1

C7_Witness ==
    /\ LastOp = "try_from_Quad"
    /\ Violating(arg) = {4}
    /\ arg.graph_name.value.tag = "Literal"
    /\ IsErr(val, MsgLiteralSubject)

\* C9: widening a Quad keeps the kind and payload of subject, predicate and
\* object, yields a graph_name exactly when the Quad has one, with its kind
\* and payload, and narrowing the widened value to a Quad returns the Quad.
C9_QuadRoundTrip ==
    /\ LastOp = "from_Quad" =>
           /\ val.ty = "GeneralizedQuad"
           /\ \A f \in {"subject", "object"} :
                  /\ val[f].ty = "GeneralizedTerm"
                  /\ val[f].tag = arg[f].tag
                  /\ val[f].inner = arg[f].inner
           /\ val.predicate = GeneralizedTerm(arg.predicate)
           /\ (val.graph_name.ty = "Some") <=> (arg.graph_name.ty = "Some")
           /\ val.graph_name.ty = "Some" =>
                  /\ val.graph_name.value.ty = "GeneralizedTerm"
                  /\ val.graph_name.value.tag = arg.graph_name.value.tag
                  /\ val.graph_name.value.inner = arg.graph_name.value.inner
           /\ val.graph_name.ty = "None" => val.graph_name = None
    /\ ops = <<"from_Quad", "try_from_Quad">> => val = Ok(orig)

C9_Witness ==
    /\ ops = <<"from_Quad", "try_from_Quad">>
    /\ orig.graph_name.ty = "Some"
    /\ orig.graph_name.value.tag = "BlankNode"
    /\ orig.object.tag = "Literal"
    /\ val = Ok(orig)

RECURSIVE Join(_, _)
\* The texts of parts, in order, with sep between consecutive ones.
Join(parts, sep) ==
    IF Len(parts) = 0 THEN <<>>
    ELSE IF Len(parts) = 1 THEN parts[1]
    ELSE parts[1] \o sep \o Join(Tail(parts), sep)

\* The rendering of a term: ? and the name for a Variable.
Rendered(t) ==
    IF t.tag = "Variable" THEN <<"?">> \o t.inner.name ELSE DisplayGeneralizedTerm(t)

Pattern(q) ==
    Join(<<Rendered(q.subject), Rendered(q.predicate), Rendered(q.object), <<".">>>>,
         <<" ">>)

StartsWith(text, prefix) ==
    /\ Len(text) >= Len(prefix)
    /\ SubSeq(text, 1, Len(prefix)) = prefix

\* C10: a GeneralizedQuad renders as S P O . without a graph name and as
\* GRAPH G { S P O .} with one, and ends with the closing brace exactly when
\* it starts with GRAPH.
C10_Rendering ==
    LastOp = "fmt_GeneralizedQuad" =>
        /\ val.ty = "String"
        /\ arg.graph_name.ty = "None" => val.chars = Pattern(arg)
        /\ arg.graph_name.ty = "Some" =>
               val.chars = Join(<<<<"G", "R", "A", "P", "H">>,
                                  Rendered(arg.graph_name.value),
                                  <<"{">>,
                                  Pattern(arg) \o <<"}">>>>, <<" ">>)
        /\ (val.chars[Len(val.chars)] = "}") <=>
               StartsWith(val.chars, <<"G", "R", "A", "P", "H", " ">>)
        /\ (val.chars[Len(val.chars)] = ".") <=> (arg.graph_name.ty = "None")

C10_Witness ==
    /\ LastOp = "fmt_GeneralizedQuad"
    /\ arg = GeneralizedQuad(GeneralizedTerm(Variable(Name(1))),
                             GeneralizedTerm(Variable(Name(2))),
                             GeneralizedTerm(Variable(Name(1))),
                             Some(GeneralizedTerm(Variable(Name(2)))))
    /\ val.chars = <<"G", "R", "A", "P", "H", " ", "?", "x", "x", " ", "{", " ",
                     "?", "x", " ", "?", "x", "x", " ", "?", "x", " ", ".", "}">>

====
